---------------------------- MODULE Spec2Model ----------------------------
(***************************************************************************)
(* Model of the wedding budget sheet functions: the fixed-column writer    *)
(* (sheet-updater), the authenticated column reader and the dynamic-column *)
(* writer (get-sheet-columns), and the column reader kept in README.md.    *)
(*                                                                         *)
(* One inbound request is followed from arrival to response.  Every await  *)
(* of the handler is a step boundary: an action runs from the receipt of   *)
(* one upstream answer to the issue of the next outbound call.  The sheet  *)
(* owner edits the header row independently of the request.                *)
(*                                                                         *)
(* Header strings are sequences of one-character strings so that           *)
(* String.prototype.toLowerCase is computed character by character.        *)
(* JavaScript values are tagged records (string, number, undefined, null). *)
(***************************************************************************)
EXTENDS Integers, Sequences, FiniteSets, TLC

(* ------------------------------ bounds -------------------------------- *)

\* longest header row enumerated from HeaderNames
MaxHeaders == 2

\* number of columns of the wide sheet (beyond column Z)
WideCols == 27

\* header edits the sheet owner makes while the request is followed
MaxEdits == 1

(* --------------------------- JavaScript values ------------------------ *)

Str(s) == [t |-> "string", s |-> s, n |-> 0]

Num(n) == [t |-> "number", s |-> "", n |-> n]

Undefined == [t |-> "undefined", s |-> "", n |-> 0]

Null == [t |-> "null", s |-> "", n |-> 0]

EmptyString == Str("")

\* ToBoolean(v) = false
Falsy(v) ==
    \/ v.t = "undefined"
    \/ v.t = "null"
    \/ v.t = "string" /\ v.s = ""
    \/ v.t = "number" /\ v.n = 0

\* v || d
OrElse(v, d) == IF Falsy(v) THEN d ELSE v

\* JSON.stringify of an array element: undefined is written as null
JsonCell(v) == IF v.t = "undefined" THEN Null ELSE v

JsonRow(row) == [i \in 1..Len(row) |-> JsonCell(row[i])]

(* ------------------------------ strings ------------------------------- *)

UpperCase ==
    << "A", "B", "C", "D", "E", "F", "G", "H", "I", "J", "K", "L", "M",
       "N", "O", "P", "Q", "R", "S", "T", "U", "V", "W", "X", "Y", "Z" >>

LowerCase ==
    << "a", "b", "c", "d", "e", "f", "g", "h", "i", "j", "k", "l", "m",
       "n", "o", "p", "q", "r", "s", "t", "u", "v", "w", "x", "y", "z" >>

\* the characters with codes 64..95
CharTable ==
    << "@" >> \o UpperCase \o << "[", "\\", "]", "^", "_" >>

\* String.fromCharCode(code) for 64 <= code <= 95
FromCharCode(code) == CharTable[code - 63]

LowerChar(c) ==
    IF \E i \in 1..26 : UpperCase[i] = c
    THEN LowerCase[CHOOSE i \in 1..26 : UpperCase[i] = c]
    ELSE c

\* String.prototype.toLowerCase
ToLowerCase(s) == [i \in 1..Len(s) |-> LowerChar(s[i])]

(* ----------------------- the header switch --------------------------- *)
\* the case labels of the header switch
CaseExpense == << "e", "x", "p", "e", "n", "s", "e" >>
CaseDate == << "d", "a", "t", "e" >>
CaseAmount == << "a", "m", "o", "u", "n", "t" >>
CaseCategory == << "c", "a", "t", "e", "g", "o", "r", "y" >>
CaseStatus == << "s", "t", "a", "t", "u", "s" >>
CasePaidBy == << "p", "a", "i", "d", " ", "b", "y" >>
CaseBill == << "b", "i", "l", "l" >>
CaseNotes == << "n", "o", "t", "e", "s" >>
CaseWeddingLocation == << "w", "e", "d", "d", "i", "n", "g", " ", "l", "o", "c", "a", "t", "i", "o", "n" >>
CaseLocalAmount == << "l", "o", "c", "a", "l", " ", "a", "m", "o", "u", "n", "t" >>

KnownColumns ==
    { CaseExpense, CaseDate, CaseAmount, CaseCategory, CaseStatus, CasePaidBy,
      CaseBill, CaseNotes, CaseWeddingLocation, CaseLocalAmount }

\* one callback of headers.map: switch (header.toLowerCase())
MapCell_noDefault(header, rec) ==
    LET h == ToLowerCase(header) IN
    CASE h = CaseExpense -> rec.expense
      [] h = CaseDate -> rec.date
      [] h = CaseAmount -> rec.amount
      [] h = CaseCategory -> rec.category
      [] h = CaseStatus -> rec.status
      [] h = CasePaidBy -> rec.paidBy
      [] h = CaseBill -> OrElse(rec.bill, EmptyString)
      [] h = CaseNotes -> OrElse(rec.notes, EmptyString)
      [] h = CaseWeddingLocation -> OrElse(rec.weddingLocation, EmptyString)
      [] h = CaseLocalAmount -> OrElse(rec.localAmount, EmptyString)
      [] OTHER -> Undefined

MapCell_noFallback(header, rec) ==
    LET h == ToLowerCase(header) IN
    CASE h = CaseExpense -> rec.expense
      [] h = CaseDate -> rec.date
      [] h = CaseAmount -> rec.amount
      [] h = CaseCategory -> rec.category
      [] h = CaseStatus -> rec.status
      [] h = CasePaidBy -> rec.paidBy
      [] h = CaseBill -> rec.bill
      [] h = CaseNotes -> rec.notes
      [] h = CaseWeddingLocation -> rec.weddingLocation
      [] h = CaseLocalAmount -> rec.localAmount
      [] OTHER -> EmptyString

MapCell(header, rec) ==
    LET h == ToLowerCase(header) IN
    CASE h = CaseExpense -> rec.expense
      [] h = CaseDate -> rec.date
      [] h = CaseAmount -> rec.amount
      [] h = CaseCategory -> rec.category
      [] h = CaseStatus -> rec.status
      [] h = CasePaidBy -> rec.paidBy
      [] h = CaseBill -> OrElse(rec.bill, EmptyString)
      [] h = CaseNotes -> OrElse(rec.notes, EmptyString)
      [] h = CaseWeddingLocation -> OrElse(rec.weddingLocation, EmptyString)
      [] h = CaseLocalAmount -> OrElse(rec.localAmount, EmptyString)
      [] OTHER -> EmptyString

\* the headers that reach a case label of the switch
RECURSIVE SelectKnown(_)
SelectKnown(hs) ==
    IF hs = << >> THEN << >>
    ELSE IF ToLowerCase(Head(hs)) \in KnownColumns
         THEN << Head(hs) >> \o SelectKnown(Tail(hs))
         ELSE SelectKnown(Tail(hs))

MapHeaders_skipUnknown(hs, rec) ==
    LET known == SelectKnown(hs) IN
    [i \in 1..Len(known) |-> MapCell(known[i], rec)]

\* headers.map(header => ...): the single row of `values`
MapHeaders(hs, rec) == [i \in 1..Len(hs) |-> MapCell(hs[i], rec)]

\* values of the fixed-column writer: [expense, date, amount, category, status, bill || '']
FixedRow(rec) ==
    << rec.expense, rec.date, rec.amount, rec.category, rec.status,
       OrElse(rec.bill, EmptyString) >>

(* ------------------------- sheets and records ------------------------- *)

\* header cells as the sheet owner typed them
HdrExpense == << "E", "x", "p", "e", "n", "s", "e" >>
HdrDate == << "D", "a", "t", "e" >>
HdrAmount == << "A", "m", "o", "u", "n", "t" >>
HdrCategory == << "C", "a", "t", "e", "g", "o", "r", "y" >>
HdrStatus == << "S", "t", "a", "t", "u", "s" >>
HdrPaidBy == << "P", "a", "i", "d", " ", "B", "y" >>
HdrBill == << "B", "i", "l", "l" >>
HdrNotes == << "N", "o", "t", "e", "s" >>
HdrWeddingLocation == << "W", "e", "d", "d", "i", "n", "g", " ", "L", "o", "c", "a", "t", "i", "o", "n" >>
HdrLocalAmount == << "L", "o", "c", "a", "l", " ", "A", "m", "o", "u", "n", "t" >>
HdrAmountLower == << "a", "m", "o", "u", "n", "t" >>
HdrAmountPadded == << " ", "A", "m", "o", "u", "n", "t", " " >>
HdrBillUpper == << "B", "I", "L", "L" >>
HdrVendor == << "V", "e", "n", "d", "o", "r" >>

\* header cells the enumerated header rows are built from
HeaderNames == { HdrPaidBy, HdrLocalAmount, HdrVendor }

\* header cells the sheet owner may add
NewColumns == { HdrNotes, HdrVendor }

ExampleRow ==
    << HdrExpense, HdrDate, HdrAmount, HdrCategory, HdrStatus, HdrPaidBy, HdrBill >>

AllColumnsRow ==
    << HdrLocalAmount, HdrWeddingLocation, HdrNotes, HdrBill, HdrPaidBy,
       HdrStatus, HdrCategory, HdrAmount, HdrDate, HdrExpense >>

SpellingsRow ==
    << HdrAmount, HdrAmountLower, HdrAmountPadded, HdrBill, HdrBillUpper >>

\* a sheet with more columns than the alphabet has letters
WideRow ==
    [i \in 1..WideCols |-> IF i <= Len(AllColumnsRow) THEN AllColumnsRow[i] ELSE HdrVendor]

HeaderRows ==
    UNION { [1..k -> HeaderNames] : k \in 0..MaxHeaders }
        \cup { ExampleRow, AllColumnsRow, SpellingsRow, WideRow }

\* the body of a write request, cast to ExpenseData without validation;
\* a field the caller omitted destructures to undefined
Record(omitted, localAmount) ==
    [ expense |-> Str("Cake"), date |-> Str("2024-03-20"), amount |-> Num(500),
      category |-> Str("Food"), status |-> Str("Paid"),
      paidBy |-> IF "paidBy" \in omitted THEN Undefined ELSE Str("Alex"),
      bill |-> IF "bill" \in omitted THEN Undefined ELSE Str("https://bill"),
      notes |-> IF "notes" \in omitted THEN Undefined ELSE Str("deposit"),
      weddingLocation |-> IF "weddingLocation" \in omitted THEN Undefined ELSE Str("Goa"),
      localAmount |-> localAmount ]

OptionalFields == { "bill", "notes", "paidBy", "weddingLocation" }

\* no field, one field, all but paidBy, or every field omitted
Omissions ==
    { {} } \cup { { f } : f \in OptionalFields }
        \cup { OptionalFields \ { "paidBy" }, OptionalFields }

Records ==
    { Record(omitted, l) : omitted \in Omissions, l \in { Undefined, Num(0), Num(450) } }

\* the readers take no body
NoRecord == Record(OptionalFields, Undefined)

\* the three secrets of Deno.env; the key may be set and not be PKCS#8 PEM
Envs == [ email : BOOLEAN, key : { "absent", "malformed", "valid" }, sheet : BOOLEAN ]

Variants == { "fixed", "dynamic", "reader", "columns" }

Writers == { "fixed", "dynamic" }

NoResponse == [ status |-> 0, fields |-> {}, error |-> "", code |-> "" ]

(* ------------------------------- state -------------------------------- *)

VARIABLES
    env,            \* the configured secrets
    sheetHeaders,   \* row 1 of the Expenses tab
    sheetRows,      \* rows appended to the Expenses tab
    edits,          \* header edits made so far
    variant,        \* the handler the request was routed to
    pc,             \* the await the handler is suspended at
    record,         \* the destructured request body
    access_token,   \* "unset", "undefined" or the bearer token
    headers,        \* the header row the handler read
    values,         \* the row the handler mapped
    range,          \* the first and last column of the append range
    calls,          \* outbound calls issued, in order
    answers,        \* what each outbound call was answered with
    response        \* the response returned to the caller

vars ==
    << env, sheetHeaders, sheetRows, edits, variant, pc, record, access_token,
       headers, values, range, calls, answers, response >>

Init ==
    /\ env \in Envs
    /\ sheetHeaders \in HeaderRows
    /\ sheetRows = << >>
    /\ edits = 0
    /\ variant = "none"
    /\ pc = "idle"
    /\ record = NoRecord
    /\ access_token = "unset"
    /\ headers = << >>
    /\ values = << >>
    /\ range = << >>
    /\ calls = << >>
    /\ answers = << >>
    /\ response = NoResponse

(* --------------------------- catch blocks ----------------------------- *)

\* the response of the catch block of handler v for an error with this message
ErrorResponse(v, message) ==
    CASE v \in Writers ->
           [ status |-> 400, fields |-> { "error", "errorType", "stack" },
             error |-> message, code |-> "" ]
      [] v = "reader" ->
           [ status |-> IF message = "Unauthorized" THEN 401 ELSE 400,
             fields |-> { "error", "code" },
             error |-> "An error occurred while processing your request",
             code |-> IF message = "Unauthorized" THEN "AUTH_ERROR" ELSE "INTERNAL_ERROR" ]
      [] v = "columns" ->
           [ status |-> 400, fields |-> { "error", "code" },
             error |-> message, code |-> "SHEETS_API_ERROR" ]

SuccessResponse(v) ==
    IF v \in Writers
    THEN [ status |-> 200, fields |-> { "message", "details" }, error |-> "", code |-> "" ]
    ELSE [ status |-> 200, fields |-> { "columns" }, error |-> "", code |-> "" ]

\* a throw inside the try block: the catch block answers the caller
Throw(v, message) ==
    /\ pc' = "done"
    /\ response' = ErrorResponse(v, message)

MissingSecret(e) == ~e.email \/ e.key = "absent" \/ ~e.sheet

\* the text after "Missing environment variables: " does not matter here
ConfigMessage(v) ==
    IF v = "reader" THEN "Configuration error" ELSE "Missing environment variables"

(* -------------------------- upstream answers -------------------------- *)

\* ok: success status, JSON body.  rejected: non-success status, JSON error
\* body.  unparsable: non-success status, body that is not JSON.
\* unreachable: fetch rejects.  ok_unparsable: success status, the call took
\* effect, body that is not JSON.
IdentityAnswers == { "ok", "rejected", "unreachable" }

TokenAnswers == { "ok", "rejected", "unparsable", "unreachable" }

SheetAnswers == { "ok", "rejected", "unparsable", "unreachable" }

AppendAnswers == { "ok", "ok_unparsable", "rejected", "unparsable", "unreachable" }

\* the spreadsheet provider serves a request only for a bearer token it issued
Authorized(token) == token \notin { "unset", "undefined" }

\* the provider parses a range only between two column letters
ValidRange(r) ==
    /\ Len(r) = 2
    /\ \E i \in 1..26 : UpperCase[i] = r[1]
    /\ \E i \in 1..26 : UpperCase[i] = r[2]

\* headersData.values?.[0] || []
FetchedHeaders(answer, row) == IF answer = "ok" THEN row ELSE << >>

\* const { access_token } = await tokenResponse.json()
TokenOf(answer) == IF answer = "ok" THEN "ya29" ELSE "undefined"

\* String.fromCharCode(64 + headers.length)
LastColumn_fixedF(hs) == "F"

LastColumn(hs) == FromCharCode(64 + Len(hs))

(* ------------------------------ handlers ------------------------------ *)

\* the secrets check, createJWT and the issue of the token exchange
SecretsThenToken(v) ==
    IF MissingSecret(env)
    THEN Throw(v, ConfigMessage(v)) /\ UNCHANGED calls
    ELSE IF env.key = "malformed"
         THEN Throw(v, "InvalidCharacterError") /\ UNCHANGED calls
         ELSE /\ pc' = "awaitToken"
              /\ calls' = Append(calls, "token")
              /\ UNCHANGED response

\* a write request arrives at the fixed-column or the dynamic-column writer
ReceiveWrite(v, bodyOk, rec) ==
    /\ pc = "idle"
    /\ variant' = v
    /\ IF bodyOk
       THEN record' = rec /\ SecretsThenToken(v)
       ELSE record' = record /\ Throw(v, "SyntaxError") /\ UNCHANGED calls
    /\ UNCHANGED << env, sheetHeaders, sheetRows, edits, access_token, headers,
                    values, range, answers >>

\* a read request arrives at the authenticated reader
ReceiveRead(authHeaderOk) ==
    /\ pc = "idle"
    /\ variant' = "reader"
    /\ IF authHeaderOk
       THEN /\ pc' = "awaitIdentity"
            /\ calls' = Append(calls, "identity")
            /\ UNCHANGED response
       ELSE /\ Throw("reader", "Missing or invalid authorization header")
            /\ UNCHANGED calls
    /\ UNCHANGED << env, sheetHeaders, sheetRows, edits, record, access_token,
                    headers, values, range, answers >>

\* a read request arrives at the column reader of README.md
ReceiveColumns ==
    /\ pc = "idle"
    /\ variant' = "columns"
    /\ SecretsThenToken("columns")
    /\ UNCHANGED << env, sheetHeaders, sheetRows, edits, record, access_token,
                    headers, values, range, answers >>

\* the identity service answers the authenticated reader
IdentityResponse(answer) ==
    /\ pc = "awaitIdentity"
    /\ answers' = Append(answers, answer)
    /\ CASE answer = "unreachable" -> Throw(variant, "TypeError") /\ UNCHANGED calls
         [] answer = "rejected" -> Throw(variant, "Unauthorized") /\ UNCHANGED calls
         [] answer = "ok" -> SecretsThenToken(variant)
    /\ UNCHANGED << env, sheetHeaders, sheetRows, edits, variant, record,
                    access_token, headers, values, range >>

\* the token exchange tried a second time when the endpoint was unreachable
TokenResponse_retry(answer) ==
    /\ pc = "awaitToken"
    /\ answers' = Append(answers, answer)
    /\ CASE answer = "unreachable" /\ Len(calls) < 2 ->
              /\ calls' = Append(calls, "token")
              /\ UNCHANGED << pc, access_token, values, range, response >>
         [] answer = "unreachable" /\ Len(calls) >= 2 ->
              /\ Throw(variant, "TypeError")
              /\ UNCHANGED << access_token, values, range, calls >>
         [] answer = "unparsable" ->
              /\ Throw(variant, "SyntaxError")
              /\ UNCHANGED << access_token, values, range, calls >>
         [] answer \in { "ok", "rejected" } /\ variant = "fixed" ->
              /\ access_token' = TokenOf(answer)
              /\ values' = FixedRow(record)
              /\ range' = << "A", "F" >>
              /\ calls' = Append(calls, "append")
              /\ pc' = "awaitAppend"
              /\ UNCHANGED response
         [] answer \in { "ok", "rejected" } /\ variant # "fixed" ->
              /\ access_token' = TokenOf(answer)
              /\ calls' = Append(calls, "headers")
              /\ pc' = "awaitHeaders"
              /\ UNCHANGED << values, range, response >>
    /\ UNCHANGED << env, sheetHeaders, sheetRows, edits, variant, record, headers >>

\* the token endpoint answers; the next call is issued with whatever
\* access_token the body held
TokenResponse(answer) ==
    /\ pc = "awaitToken"
    /\ answers' = Append(answers, answer)
    /\ CASE answer = "unreachable" ->
              /\ Throw(variant, "TypeError")
              /\ UNCHANGED << access_token, values, range, calls >>
         [] answer = "unparsable" ->
              /\ Throw(variant, "SyntaxError")
              /\ UNCHANGED << access_token, values, range, calls >>
         [] answer \in { "ok", "rejected" } /\ variant = "fixed" ->
              /\ access_token' = TokenOf(answer)
              /\ values' = FixedRow(record)
              /\ range' = << "A", "F" >>
              /\ calls' = Append(calls, "append")
              /\ pc' = "awaitAppend"
              /\ UNCHANGED response
         [] answer \in { "ok", "rejected" } /\ variant # "fixed" ->
              /\ access_token' = TokenOf(answer)
              /\ calls' = Append(calls, "headers")
              /\ pc' = "awaitHeaders"
              /\ UNCHANGED << values, range, response >>
    /\ UNCHANGED << env, sheetHeaders, sheetRows, edits, variant, record, headers >>

\* the spreadsheet provider answers the read of row 1
HeadersResponse(answer) ==
    /\ pc = "awaitHeaders"
    /\ answer = "ok" => Authorized(access_token)
    /\ answers' = Append(answers, answer)
    /\ CASE answer = "unreachable" ->
              /\ Throw(variant, "TypeError")
              /\ UNCHANGED << headers, values, range, calls >>
         [] answer = "unparsable" ->
              /\ Throw(variant, "SyntaxError")
              /\ UNCHANGED << headers, values, range, calls >>
         [] answer \in { "ok", "rejected" } /\ variant = "dynamic" ->
              /\ headers' = FetchedHeaders(answer, sheetHeaders)
              /\ values' = MapHeaders(headers', record)
              /\ range' = << "A", LastColumn(headers') >>
              /\ calls' = Append(calls, "append")
              /\ pc' = "awaitAppend"
              /\ UNCHANGED response
         [] answer = "rejected" /\ variant # "dynamic" ->
              /\ Throw(variant, IF variant = "reader"
                                THEN "Failed to fetch sheet data"
                                ELSE "Google Sheets API error")
              /\ UNCHANGED << headers, values, range, calls >>
         [] answer = "ok" /\ variant # "dynamic" ->
              /\ headers' = FetchedHeaders(answer, sheetHeaders)
              /\ pc' = "done"
              /\ response' = SuccessResponse(variant)
              /\ UNCHANGED << values, range, calls >>
    /\ UNCHANGED << env, sheetHeaders, sheetRows, edits, variant, record, access_token >>

\* the spreadsheet provider answers the append
AppendResponse(answer) ==
    /\ pc = "awaitAppend"
    /\ answer \in { "ok", "ok_unparsable" } => Authorized(access_token) /\ ValidRange(range)
    /\ answers' = Append(answers, answer)
    /\ sheetRows' = IF answer \in { "ok", "ok_unparsable" }
                    THEN Append(sheetRows, JsonRow(values))
                    ELSE sheetRows
    /\ CASE answer = "unreachable" -> Throw(variant, "TypeError")
         [] answer \in { "unparsable", "ok_unparsable" } -> Throw(variant, "SyntaxError")
         [] answer = "rejected" -> Throw(variant, "Google Sheets API error")
         [] answer = "ok" -> pc' = "done" /\ response' = SuccessResponse(variant)
    /\ UNCHANGED << env, sheetHeaders, edits, variant, record, access_token,
                    headers, values, range, calls >>

(* ---------------------------- sheet owner ----------------------------- *)

Reverse(row) == [i \in 1..Len(row) |-> row[Len(row) + 1 - i]]

\* reorder, remove or add a column
HeaderEdits(row) ==
    ({ Reverse(row) } \cup { SubSeq(row, 1, Len(row) - 1) }
        \cup { Append(row, c) : c \in NewColumns }) \ { row }

EditHeaders(row) ==
    /\ edits < MaxEdits
    /\ row \in HeaderEdits(sheetHeaders)
    /\ sheetHeaders' = row
    /\ edits' = edits + 1
    /\ UNCHANGED << env, sheetRows, variant, pc, record, access_token, headers,
                    values, range, calls, answers, response >>

(* --------------------------- specification ---------------------------- *)

Next ==
    \/ \E v \in Writers, bodyOk \in BOOLEAN, rec \in Records : ReceiveWrite(v, bodyOk, rec)
    \/ \E authHeaderOk \in BOOLEAN : ReceiveRead(authHeaderOk)
    \/ ReceiveColumns
    \/ \E answer \in IdentityAnswers : IdentityResponse(answer)
    \/ \E answer \in TokenAnswers : TokenResponse(answer)
    \/ \E answer \in SheetAnswers : HeadersResponse(answer)
    \/ \E answer \in AppendAnswers : AppendResponse(answer)
    \/ \E row \in HeaderEdits(sheetHeaders) : EditHeaders(row)

Spec == Init /\ [][Next]_vars

(* ------------------------------ claims -------------------------------- *)

Issued(call) == \E i \in 1..Len(calls) : calls[i] = call

\* the answer the request received to a call, "none" while there is none
AnswerTo(call) ==
    IF \E i \in 1..Len(answers) : calls[i] = call
    THEN answers[CHOOSE i \in 1..Len(answers) : calls[i] = call]
    ELSE "none"

Failed == pc = "done" /\ response.status # 200

\* the row in the body of the append call
SentRow == JsonRow(values)

AppendIssuedByMapper == variant = "dynamic" /\ Issued("append")

\* C1: in a write request, once the token exchange was answered with a
\* non-success status or an unparsable body, neither the header fetch nor the
\* append is issued, and the request ends with an error response.
C1_NoCallAfterFailedExchange ==
    (variant \in Writers /\ AnswerTo("token") \in { "rejected", "unparsable" })
        => /\ ~Issued("headers")
           /\ ~Issued("append")
           /\ Failed

\* C2: a request served with a secret absent ends with a response that
\* carries a code field, after no outbound call at all.
C2_MissingSecretNoCall ==
    (MissingSecret(env) /\ variant # "none")
        => /\ calls = << >>
           /\ Failed
           /\ "code" \in response.fields

\* C3: the row the dynamic-column writer sends has exactly one cell per
\* header of the row it fetched, the empty row included.
C3_RowLength ==
    AppendIssuedByMapper => Len(SentRow) = Len(headers)

C3_Witness ==
    /\ AppendIssuedByMapper
    /\ sheetRows # << >>
    /\ Len(headers) = 3
    /\ \E i \in 1..Len(headers) : headers[i] = HdrVendor
    /\ Len(sheetRows[1]) = 3

C3_WitnessEmptyRow ==
    /\ AppendIssuedByMapper
    /\ AnswerTo("headers") = "ok"
    /\ headers = << >>
    /\ SentRow = << >>

IsSpace(c) == c = " "

RECURSIVE TrimStart(_)
TrimStart(s) ==
    IF s # << >> /\ IsSpace(Head(s)) THEN TrimStart(Tail(s)) ELSE s

RECURSIVE TrimEnd(_)
TrimEnd(s) ==
    IF s # << >> /\ IsSpace(s[Len(s)]) THEN TrimEnd(SubSeq(s, 1, Len(s) - 1)) ELSE s

\* a header lower-cased and trimmed
Normalized(s) == ToLowerCase(TrimEnd(TrimStart(s)))

\* C4: two headers of the fetched row that differ only in letter case or in
\* leading and trailing spaces get the same cell.
C4_SpellingInsensitive ==
    AppendIssuedByMapper
        => \A i, j \in 1..Len(headers) :
              Normalized(headers[i]) = Normalized(headers[j]) => values[i] = values[j]

\* the column of a field the caller may omit, and the field's value
OptionalColumn(rec) ==
    << << CaseBill, rec.bill >>, << CaseNotes, rec.notes >>,
       << CaseWeddingLocation, rec.weddingLocation >>,
       << CaseLocalAmount, rec.localAmount >> >>

OmittedCellsEmpty(columns) ==
    \A i \in 1..Len(headers) : \A k \in 1..Len(columns) :
        (ToLowerCase(headers[i]) = columns[k][1] /\ columns[k][2] = Undefined)
            => SentRow[i] = EmptyString

FieldOf(label, rec) ==
    CASE label = CaseExpense -> rec.expense
      [] label = CaseDate -> rec.date
      [] label = CaseAmount -> rec.amount
      [] label = CaseCategory -> rec.category
      [] label = CaseStatus -> rec.status
      [] label = CasePaidBy -> rec.paidBy
      [] label = CaseBill -> rec.bill
      [] label = CaseNotes -> rec.notes
      [] label = CaseWeddingLocation -> rec.weddingLocation
      [] label = CaseLocalAmount -> rec.localAmount

\* C6: when every header is in the mapping table and the record supplies a
\* value for each of their fields, cell i is the supplied value of the field
\* header i names.
C6_CellsAreSuppliedValues ==
    (/\ AppendIssuedByMapper
     /\ \A i \in 1..Len(headers) :
           /\ ToLowerCase(headers[i]) \in KnownColumns
           /\ FieldOf(ToLowerCase(headers[i]), record) # Undefined)
        => \A i \in 1..Len(headers) :
              SentRow[i] = FieldOf(ToLowerCase(headers[i]), record)

\* C7: in the dynamic-column writer, once the read of row 1 was answered with
\* a non-success status, no append is issued and the request ends with an
\* error response.
C7_NoAppendAfterFailedHeaderFetch ==
    (variant = "dynamic" /\ AnswerTo("headers") = "rejected")
        => ~Issued("append") /\ Failed

\* the column name of the n-th column in A1 notation: A..Z, AA, AB, ...
RECURSIVE ColumnName(_)
ColumnName(n) ==
    IF n <= 0 THEN << >>
    ELSE ColumnName((n - 1) \div 26) \o << UpperCase[((n - 1) % 26) + 1] >>

\* C8: for a header row that was read and is not empty, the append range runs
\* from column A to the column named after the number of headers.
C8_RangeCoversHeaders ==
    (AppendIssuedByMapper /\ AnswerTo("headers") = "ok" /\ headers # << >>)
        => range[1] = "A" /\ << range[2] >> = ColumnName(Len(headers))

\* the caller's bearer token was turned down by the identity service
UpstreamAuthorizationFailure == AnswerTo("identity") = "rejected"

\* C9: every failing request is answered with an error and a code field, with
\* status 401 after an upstream authorization failure and 400 otherwise.
C9_ErrorShape ==
    Failed
        => /\ response.fields = { "error", "code" }
           /\ response.status = IF UpstreamAuthorizationFailure THEN 401 ELSE 400

\* C10: a header outside the mapping table gets the empty string, and the
\* mapping never raises: whatever row was read, the append is issued.
C10_UnknownHeaderEmpty ==
    /\ AppendIssuedByMapper
          => \A i \in 1..Len(headers) :
                ToLowerCase(headers[i]) \notin KnownColumns => SentRow[i] = EmptyString
    /\ (variant = "dynamic" /\ AnswerTo("headers") \in { "ok", "rejected" })
          => Issued("append")

C10_Witness ==
    /\ AppendIssuedByMapper
    /\ AnswerTo("headers") = "ok"
    /\ \E i, j \in 1..Len(headers) :
          /\ headers[i] = HdrVendor /\ SentRow[i] = EmptyString
          /\ headers[j] = HdrPaidBy /\ SentRow[j] = Str("Alex")
    /\ sheetRows # << >>

\* C11: a write request is told it failed only if it appended no row, and
\* told it succeeded only if it appended exactly one row.
C11_ResponseMatchesSheet ==
    (variant \in Writers /\ pc = "done")
        => /\ Failed => sheetRows = << >>
           /\ response.status = 200 => Len(sheetRows) = 1

\* cell i of a row as the sheet shows it: a cell the row lacks is empty
CellAt(row, i) == IF i <= Len(row) THEN row[i] ELSE EmptyString

\* the row puts under every header of hs the cell the mapper gives that
\* header, and nothing beyond the last header
LaidOutBy(row, hs, rec) ==
    /\ \A i \in 1..Len(hs) : CellAt(row, i) = JsonCell(MapCell(hs[i], rec))
    /\ \A i \in 1..Len(row) : i > Len(hs) => row[i] = EmptyString

\* C12: whenever the dynamic-column writer's row is appended, it is laid out
\* by the header row in force at that moment.
C12_AppendedUnderCurrentHeaders ==
    [][(variant = "dynamic" /\ Len(sheetRows') > Len(sheetRows))
          => LaidOutBy(sheetRows'[Len(sheetRows')], sheetHeaders, record)]_vars

DynamicCallOrder == << "token", "headers", "append" >>

\* C13: the dynamic-column writer issues the token exchange, the header fetch
\* and the append in that order, each at most once, and each only after the
\* call before it was answered.
C13_SequentialCalls ==
    variant = "dynamic"
        => /\ Len(calls) <= Len(DynamicCallOrder)
           /\ calls = SubSeq(DynamicCallOrder, 1, Len(calls))
           /\ Len(answers) <= Len(calls)
           /\ Len(calls) <= Len(answers) + 1
           /\ pc = "done" => Len(answers) = Len(calls)

C13_Witness ==
    /\ variant = "dynamic"
    /\ pc = "done"
    /\ calls = DynamicCallOrder
    /\ answers = << "ok", "ok", "ok" >>
    /\ Len(sheetRows) = 1

=============================================================================
